---- MODULE Spec2Model ----
(***************************************************************************)
(* Household energy advisor: the pricing table, the household state, the   *)
(* baseline and greedy allocators and the day simulator.                   *)
(*                                                                         *)
(* Units.  Python floats are modelled by exact integers:                   *)
(*   power        tenths of a kW        (3.5 kW  -> 35)                    *)
(*   price        cents per kWh         (0.08    -> 8)                     *)
(*   energy       tenths of a kWh                                          *)
(*   cost         tenths of a cent                                         *)
(*   temperature  degrees Fahrenheit                                       *)
(*   durationHours  half hours          (1.5 h   -> 3), so that int() and  *)
(*                  the simulator's use of the untruncated value differ    *)
(* Hours, deadlines and start hours are whole hours.                       *)
(***************************************************************************)
EXTENDS Integers, Sequences, FiniteSets, TLC

VARIABLES
    pricingType,      \* TOUPricing.pricingType
    prices,           \* TOUPricing.prices : hour -> price
    monthlyBudget,    \* Household.monthlyBudget
    currentDay,       \* Household.currentDay
    monthDays,        \* Household.monthDays
    appliances,       \* Household.appliances, in arrival order
    hvac,             \* Household.hvac
    energyUsedToday,  \* Household.energyUsedToday
    energyUsedMonth,  \* Household.energyUsedMonth
    todayCost,        \* Household.todayCost
    monthCost,        \* Household.monthCost
    hourly_usage,     \* Household.hourly_usage
    hourly_costs,     \* Household.hourly_costs
    ret,              \* the most recent operation and the value it returned
    lastCall,         \* the arguments of the most recent simulate_day call
    calls,            \* number of direct simulate_day calls made so far
    plans             \* number of plan_day calls that returned so far

vars == <<pricingType, prices, monthlyBudget, currentDay, monthDays, appliances, hvac,
          energyUsedToday, energyUsedMonth, todayCost, monthCost, hourly_usage,
          hourly_costs, ret, lastCall, calls, plans>>

\* ---------------------------------------------------------------- bounds
MaxCalls == 1           \* direct simulate_day calls per behaviour
MaxPlans == 1           \* plan_day calls per behaviour

\* ---------------------------------------------------------------- basics
Hours == 0..23

None == -1              \* Python None in Appliance.scheduled_start

Min(a, b) == IF a <= b THEN a ELSE b

Max(a, b) == IF a >= b THEN a ELSE b

\* int(x) of a non-negative value held in half hours: truncation to whole hours
int(halves) == halves \div 2

\* [x] * 24
Repeat24(x) == [i \in 1..24 |-> x]

\* {h: [] for h in range(24)}
EmptySchedule == [h \in Hours |-> <<>>]

\* ---------------------------------------------------------------- TOUPricing
\* a variant of _create_pricing_schedule whose off-peak band is 1 <= hour < 7:
\* hour 0 is priced mid-peak
_create_pricing_schedule_offpeak_from_1(pricing_type) ==
    IF pricing_type = "standard"
    THEN [hour \in Hours |-> IF 1 <= hour /\ hour < 7 THEN 8
                             ELSE IF 16 <= hour /\ hour < 21 THEN 32 ELSE 15]
    ELSE IF pricing_type = "summer"
    THEN [hour \in Hours |-> IF 1 <= hour /\ hour < 7 THEN 9
                             ELSE IF 14 <= hour /\ hour < 22 THEN 38 ELSE 17]
    ELSE [hour \in Hours |-> IF 1 <= hour /\ hour < 7 THEN 7
                             ELSE IF 17 <= hour /\ hour < 20 THEN 28 ELSE 14]

\* _create_pricing_schedule: any name other than standard / summer takes the
\* else branch (winter)
_create_pricing_schedule(pricing_type) ==
    IF pricing_type = "standard"
    THEN [hour \in Hours |-> IF hour < 6 THEN 8
                             ELSE IF 16 <= hour /\ hour < 21 THEN 32 ELSE 15]
    ELSE IF pricing_type = "summer"
    THEN [hour \in Hours |-> IF hour < 6 THEN 9
                             ELSE IF 14 <= hour /\ hour < 22 THEN 38 ELSE 17]
    ELSE [hour \in Hours |-> IF hour < 6 THEN 7
                             ELSE IF 17 <= hour /\ hour < 20 THEN 28 ELSE 14]

\* A caller-supplied table (tou_pricing.prices is a plain attribute): lo in the
\* hours [lowStart, lowStart + lowLen), hi elsewhere
TwoLevelTable(lowStart, lowLen, lo, hi) ==
    [hour \in Hours |-> IF lowStart <= hour /\ hour < lowStart + lowLen THEN lo ELSE hi]

\* TOUPricing.__init__: the table of a profile name; "custom" stands for a
\* caller-supplied table of 6 cheap hours (9..14) and 18 dear ones, whose
\* cheapest hours are not at midnight
PricingTable(t) ==
    IF t = "custom" THEN TwoLevelTable(9, 6, 10, 30) ELSE _create_pricing_schedule(t)

\* the households the model starts from: <<pricingType, currentDay>>
HouseholdChoices ==
    { <<"standard", 1>>, <<"summer", 1>>, <<"winter", 1>>, <<"custom", 1>>,
      <<"standard", 31>> }

\* TOUPricing.get_price
get_price(table, hour) == table[hour % 24]

\* HouseholdEnvironment.tou_prices
tou_prices(table) == [h \in Hours |-> get_price(table, h)]

\* ---------------------------------------------------------------- Appliance
\* _appliance_init; the name is the appliance's position in the list, which
\* keeps names unique
Appliance(name, powerkW, durationHours, deadlineHour) ==
    [name |-> name, powerkW |-> powerkW, durationHours |-> durationHours,
     deadlineHour |-> deadlineHour, isScheduled |-> FALSE, scheduled_start |-> None]

\* utils.default_appliances: Dishwasher, Washer/Dryer, EV Charger
default_appliances ==
    << Appliance(1, 12, 4, 23), Appliance(2, 20, 6, 21), Appliance(3, 70, 8, 7) >>

\* Household.add_appliance
add_appliance(apps, appliance) == Append(apps, appliance)

\* the appliance lists a household is built with, as
\* <<powerkW, durationHours (half hours), deadlineHour>> in arrival order
ApplianceChoices ==
    { << <<12, 4, 23>>, <<20, 6, 21>>, <<70, 8, 7>> >>,  \* default_appliances
      << <<12, 4, 23>>, <<10, 50, 23>> >>,  \* 2 h by 23, then 25 h (longer than the day)
      << <<10, 50, 23>>, <<10, 2, 0>> >>,   \* 25 h, then 1 h by hour 0
      << <<15, 3, 9>>, <<20, 0, 5>> >>,     \* 1.5 h by 9, then a zero duration
      << <<12, 4, 23>>, <<15, 3, 9>> >>,    \* 2 h by 23, then 1.5 h by 9
      << <<0, 4, 12>>, <<30, 36, 23>> >>,   \* 0 kW for 2 h by 12, then 18 h by 23
      << <<10, 40, 23>>, <<10, 20, 23>> >>, \* 20 h, then 10 h: 30 h back to back
      << <<10, 2, 0>> >> }                  \* 1 h by hour 0

\* ---------------------------------------------------------------- HVACSystem
\* class attributes of HVACSystem
HVACSystem == [currentTemp |-> 72, setpoint |-> 72, minTemp |-> 68, maxTemp |-> 76,
               powerkW |-> 35]

is_comfortable(h) == h.minTemp <= h.currentTemp /\ h.currentTemp <= h.maxTemp

\* property aliases: base_setpoint reads setpoint
base_setpoint(h) == h.setpoint

min_temp(h) == h.minTemp

max_temp(h) == h.maxTemp

\* ---------------------------------------------------------------- Household
\* get_daily_budget, as the exact fraction num / den (den > 0); 0.0 is 0 / 1
get_daily_budget(mBudget, usedMonth, mDays, cDay) ==
    LET days_remaining == mDays - cDay + 1
        budget_remaining == mBudget - usedMonth
    IN IF days_remaining <= 0
       THEN [num |-> 0, den |-> 1]
       ELSE [num |-> budget_remaining, den |-> days_remaining]

\* the mutable part of the household that simulate_day reads and writes
HouseholdState ==
    [appliances |-> appliances, hvac |-> hvac, energyUsedToday |-> energyUsedToday,
     energyUsedMonth |-> energyUsedMonth, todayCost |-> todayCost,
     monthCost |-> monthCost, hourly_usage |-> hourly_usage,
     hourly_costs |-> hourly_costs]

\* ---------------------------------------------------------------- simulate_day
\* variant: the schedule marks of the previous call are left in place
ClearScheduledNone(apps) == apps

\* lines 258-263: clear every appliance's schedule marks
ClearScheduled(apps) ==
    [i \in 1..Len(apps) |-> [apps[i] EXCEPT !.isScheduled = FALSE,
                                            !.scheduled_start = None]]

\* lines 266-272: for each name of one hour's list, mark the first appliance of
\* that name
RECURSIVE ApplyNames(_, _, _)
ApplyNames(apps, hour, names) ==
    IF names = <<>> THEN apps
    ELSE LET matches == {i \in 1..Len(apps) : apps[i].name = Head(names)}
             first == CHOOSE i \in matches : \A j \in matches : i <= j
             marked == IF matches = {} THEN apps
                       ELSE [apps EXCEPT ![first] = [@ EXCEPT !.isScheduled = TRUE,
                                                              !.scheduled_start = hour]]
         IN ApplyNames(marked, hour, Tail(names))

\* line 265: schedule.items(), in the key order 0..23 the schedules are built with
RECURSIVE ApplySchedule(_, _, _)
ApplySchedule(apps, schedule, hour) ==
    IF hour > 23 THEN apps
    ELSE ApplySchedule(ApplyNames(apps, hour, schedule[hour]), schedule, hour + 1)

\* variant: the end of the interval is inclusive (h <= start + duration)
RunningInclusiveEnd(a, h) ==
    /\ a.scheduled_start # None
    /\ a.durationHours # 0
    /\ a.scheduled_start <= h
    /\ 2 * h <= 2 * a.scheduled_start + a.durationHours

\* lines 286-291: does appliance a draw power in hour h
\* (start <= h < start + duration, duration untruncated)
Running(a, h) ==
    /\ a.scheduled_start # None
    /\ a.durationHours # 0
    /\ a.scheduled_start <= h
    /\ 2 * h < 2 * a.scheduled_start + a.durationHours

\* lines 284-291: the appliance loop of one hour, from appliance i on
RECURSIVE ApplianceUsage(_, _, _)
ApplianceUsage(apps, h, i) ==
    IF i > Len(apps) THEN 0
    ELSE (IF Running(apps[i], h) THEN apps[i].powerkW ELSE 0)
         + ApplianceUsage(apps, h, i + 1)

\* variant: the thermostat's draw is added to the recorded hourly usage but not
\* to the daily total
HourStepForgetsThermostat(acc, apps, table, hvac_setpoints, h) ==
    LET hv == IF Len(hvac_setpoints) > 0 /\ h < Len(hvac_setpoints)
              THEN [acc.hvac EXCEPT !.setpoint = hvac_setpoints[h + 1],
                                    !.currentTemp = hvac_setpoints[h + 1]]
              ELSE acc.hvac
        usage == ApplianceUsage(apps, h, 1)
        price == get_price(table, h)
        cost == (usage + hv.powerkW) * price
    IN [hvac |-> hv,
        comfort_violations |-> acc.comfort_violations
                               + (IF is_comfortable(hv) THEN 0 ELSE 1),
        hourly_usage |-> [acc.hourly_usage EXCEPT ![h] = usage + hv.powerkW],
        hourly_costs |-> [acc.hourly_costs EXCEPT ![h] = cost],
        energyUsedToday |-> acc.energyUsedToday + usage,
        todayCost |-> acc.todayCost + cost]

\* lines 276-302: the body of the hour loop for hour h
HourStep(acc, apps, table, hvac_setpoints, h) ==
    LET hv == IF Len(hvac_setpoints) > 0 /\ h < Len(hvac_setpoints)
              THEN [acc.hvac EXCEPT !.setpoint = hvac_setpoints[h + 1],
                                    !.currentTemp = hvac_setpoints[h + 1]]
              ELSE acc.hvac
        usage == ApplianceUsage(apps, h, 1) + hv.powerkW
        price == get_price(table, h)
        cost == usage * price
    IN [hvac |-> hv,
        comfort_violations |-> acc.comfort_violations
                               + (IF is_comfortable(hv) THEN 0 ELSE 1),
        hourly_usage |-> [acc.hourly_usage EXCEPT ![h] = usage],
        hourly_costs |-> [acc.hourly_costs EXCEPT ![h] = cost],
        energyUsedToday |-> acc.energyUsedToday + usage,
        todayCost |-> acc.todayCost + cost]

\* line 276: for h in range(24)
RECURSIVE HourLoop(_, _, _, _, _)
HourLoop(acc, apps, table, hvac_setpoints, h) ==
    IF h > 23 THEN acc
    ELSE HourLoop(HourStep(acc, apps, table, hvac_setpoints, h),
                  apps, table, hvac_setpoints, h + 1)

\* lines 309-316: finish = start + duration > deadline
Missed(a) ==
    /\ a.scheduled_start # None
    /\ a.durationHours # 0
    /\ 2 * a.scheduled_start + a.durationHours > 2 * a.deadlineHour

\* lines 307-316
missed_deadlines(apps) == Cardinality({i \in 1..Len(apps) : Missed(apps[i])})

\* variant: the month is overwritten with the day (= instead of +=)
AddToMonthOverwrite(month, today) == today

\* lines 304-305: the monthly accumulators after the day
AddToMonth(month, today) == month + today

\* simulate_day(schedule, hvac_setpoints) on household state hh: the household
\* state after the call and the returned metrics
simulate_day(hh, schedule, hvac_setpoints) ==
    LET apps == ApplySchedule(ClearScheduled(hh.appliances), schedule, 0)
        start == [hvac |-> hh.hvac, comfort_violations |-> 0,
                  hourly_usage |-> [h \in Hours |-> 0],
                  hourly_costs |-> [h \in Hours |-> 0],
                  energyUsedToday |-> 0, todayCost |-> 0]
        day == HourLoop(start, apps, prices, hvac_setpoints, 0)
        usedMonth == AddToMonth(hh.energyUsedMonth, day.energyUsedToday)
        costMonth == AddToMonth(hh.monthCost, day.todayCost)
    IN [state |-> [appliances |-> apps, hvac |-> day.hvac,
                   energyUsedToday |-> day.energyUsedToday,
                   energyUsedMonth |-> usedMonth,
                   todayCost |-> day.todayCost, monthCost |-> costMonth,
                   hourly_usage |-> day.hourly_usage,
                   hourly_costs |-> day.hourly_costs],
        metrics |-> [total_kwh |-> day.energyUsedToday,
                     total_cost |-> day.todayCost,
                     hourly_usage |-> day.hourly_usage,
                     hourly_costs |-> day.hourly_costs,
                     comfort_violations |-> day.comfort_violations,
                     missed_deadlines |-> missed_deadlines(apps),
                     daily_budget_kwh |-> get_daily_budget(monthlyBudget, usedMonth,
                                                           monthDays, currentDay)]]

\* ---------------------------------------------------------------- _baseline_policy
\* agent.py lines 128-133, from appliance i on.  schedule[start_hour] raises
\* KeyError when start_hour is no key of the schedule (raised = TRUE)
RECURSIVE BaselineLoop(_, _, _, _)
BaselineLoop(apps, i, current_hour, schedule) ==
    IF i > Len(apps) THEN [raised |-> FALSE, schedule |-> schedule]
    ELSE LET a == apps[i]
             duration == Max(1, int(a.durationHours))
             start_hour == current_hour
             end_hour == Min(24, current_hour + duration)
         IN IF start_hour \notin DOMAIN schedule
            THEN [raised |-> TRUE, schedule |-> schedule]
            ELSE BaselineLoop(apps, i + 1, end_hour,
                              [schedule EXCEPT ![start_hour] = Append(@, a.name)])

\* agent.py lines 119-136 (the later of the two definitions in the class body)
_baseline_policy(apps, hv) ==
    LET placed == BaselineLoop(apps, 1, 0, EmptySchedule)
    IN [raised |-> placed.raised, schedule |-> placed.schedule,
        hvac_setpoints |-> Repeat24(base_setpoint(hv))]

\* ---------------------------------------------------------------- _greedy_policy
\* sorted(..., key=deadline): stable insertion of a behind the entries whose
\* deadline is not later
RECURSIVE InsertByDeadline(_, _)
InsertByDeadline(s, a) ==
    IF s = <<>> THEN <<a>>
    ELSE IF Head(s).deadlineHour <= a.deadlineHour
         THEN <<Head(s)>> \o InsertByDeadline(Tail(s), a)
         ELSE <<a>> \o s

\* line 148: appliances_sorted, of the first n appliances
RECURSIVE appliances_sorted(_, _)
appliances_sorted(apps, n) ==
    IF n = 0 THEN <<>>
    ELSE InsertByDeadline(appliances_sorted(apps, n - 1), apps[n])

\* lines 164-166: cost of running at power from hour h to end - 1
RECURSIVE WindowCost(_, _, _, _)
WindowCost(power, prs, h, end) ==
    IF h >= end THEN 0
    ELSE power * prs[h] + WindowCost(power, prs, h + 1, end)

\* lines 151-154
Duration(a) == Max(1, int(a.durationHours))

LatestStart(a) == Max(0, a.deadlineHour - Duration(a) + 1)

\* variant: cost <= best_cost, so that ties go to the latest start
RECURSIVE BestStartLoopTieLast(_, _, _, _)
BestStartLoopTieLast(a, prs, start, best) ==
    IF start > LatestStart(a) THEN best
    ELSE LET end == start + Duration(a)
             cost == WindowCost(a.powerkW, prs, start, end)
         IN IF end > 24
            THEN BestStartLoopTieLast(a, prs, start + 1, best)
            ELSE IF ~best.finite \/ cost <= best.best_cost
                 THEN BestStartLoopTieLast(a, prs, start + 1,
                          [best_start |-> start, best_cost |-> cost, finite |-> TRUE])
                 ELSE BestStartLoopTieLast(a, prs, start + 1, best)

\* lines 158-170: the candidate loop from start on; best.finite = FALSE stands
\* for best_cost = float("inf")
RECURSIVE BestStartLoop(_, _, _, _)
BestStartLoop(a, prs, start, best) ==
    IF start > LatestStart(a) THEN best
    ELSE LET end == start + Duration(a)
             cost == WindowCost(a.powerkW, prs, start, end)
         IN IF end > 24
            THEN BestStartLoop(a, prs, start + 1, best)
            ELSE IF ~best.finite \/ cost < best.best_cost
                 THEN BestStartLoop(a, prs, start + 1,
                          [best_start |-> start, best_cost |-> cost, finite |-> TRUE])
                 ELSE BestStartLoop(a, prs, start + 1, best)

\* lines 155-170
BestStart(a, prs) ==
    BestStartLoop(a, prs, 0, [best_start |-> 0, best_cost |-> 0, finite |-> FALSE]).best_start

\* lines 150-172: place the sorted appliances from position i on
RECURSIVE GreedyLoop(_, _, _, _)
GreedyLoop(sorted, prs, i, schedule) ==
    IF i > Len(sorted) THEN schedule
    ELSE GreedyLoop(sorted, prs, i + 1,
                    [schedule EXCEPT ![BestStart(sorted[i], prs)] = Append(@, sorted[i].name)])

\* sorted(prices): insertion into an ascending sequence
RECURSIVE InsertPrice(_, _)
InsertPrice(s, p) ==
    IF s = <<>> THEN <<p>>
    ELSE IF Head(s) <= p THEN <<Head(s)>> \o InsertPrice(Tail(s), p)
         ELSE <<p>> \o s

\* line 180: sorted_prices, of the hours 0 .. n - 1
RECURSIVE sorted_prices(_, _)
sorted_prices(prs, n) ==
    IF n = 0 THEN <<>>
    ELSE InsertPrice(sorted_prices(prs, n - 1), prs[n - 1])

\* line 181: int(0.75 * len(sorted_prices)), a 0-based index
PeakIndex(len) == (3 * len) \div 4

peak_threshold(prs) == sorted_prices(prs, 24)[PeakIndex(24) + 1]

\* variant: p > peak_threshold
SetpointStrict(p, threshold, base, max_t) ==
    IF p > threshold THEN Min(max_t, base + 2) ELSE base

\* lines 185-188
Setpoint(p, threshold, base, max_t) ==
    IF p >= threshold THEN Min(max_t, base + 2) ELSE base

\* agent.py lines 138-191
_greedy_policy(apps, hv, table) ==
    LET prs == tou_prices(table)
        threshold == peak_threshold(prs)
    IN [schedule |-> GreedyLoop(appliances_sorted(apps, Len(apps)), prs, 1, EmptySchedule),
        hvac_setpoints |-> [i \in 1..24 |->
            Setpoint(prs[i - 1], threshold, base_setpoint(hv), max_temp(hv))]]

\* ---------------------------------------------------------------- plan_day
\* agent.py lines 21-34 on household state hh; a KeyError in _baseline_policy
\* leaves before the first simulate_day
plan_day(hh) ==
    LET b == _baseline_policy(hh.appliances, hh.hvac)
        s1 == simulate_day(hh, b.schedule, b.hvac_setpoints)
        g == _greedy_policy(s1.state.appliances, s1.state.hvac, prices)
        s2 == simulate_day(s1.state, g.schedule, g.hvac_setpoints)
    IN IF b.raised
       THEN [raised |-> TRUE, state |-> hh]
       ELSE [raised |-> FALSE, state |-> s2.state,
             baseline_schedule |-> b.schedule, baseline_hvac |-> b.hvac_setpoints,
             baseline_metrics |-> s1.metrics,
             greedy_schedule |-> g.schedule, greedy_hvac |-> g.hvac_setpoints,
             greedy_metrics |-> s2.metrics]

\* ---------------------------------------------------------------- savings
\* utils.compute_savings: both costs are numbers; percent is the fraction
\* num / den of the float (diff / bc) * 100.0
compute_savings(baseline_metrics, greedy_metrics) ==
    LET bc == baseline_metrics.total_cost
        gc == greedy_metrics.total_cost
        diff == bc - gc
    IN IF bc <= 0
       THEN [absolute |-> 0, percent |-> [num |-> 0, den |-> 1]]
       ELSE [absolute |-> diff, percent |-> [num |-> diff * 100, den |-> bc]]

\* ---------------------------------------------------------------- inputs
\* start hours a caller's schedule may list an appliance under
SchedStarts == {22}

\* the schedule listing appliance i under starts[i] (None: not listed)
ScheduleOf(starts) ==
    [h \in Hours |-> SelectSeq([i \in 1..Len(starts) |-> i], LAMBDA i : starts[i] = h)]

\* schedules a caller may pass for n appliances
ScheduleChoices(n) == {ScheduleOf(st) : st \in [1..n -> SchedStarts \cup {None}]}

\* setpoint curves a caller may pass: none, and a warm one above max_temp
CurveChoices == {<<>>, Repeat24(77)}

\* ---------------------------------------------------------------- state machine
\* Household.__init__ / HouseholdEnvironment.__init__, then TOUPricing.__init__
Init ==
    /\ \E c \in HouseholdChoices :
          /\ pricingType = c[1]
          /\ prices = PricingTable(c[1])
          /\ currentDay = c[2]
    /\ monthlyBudget = 1000
    /\ monthDays = 30
    /\ appliances = <<>>
    /\ hvac = HVACSystem
    /\ energyUsedToday = 0
    /\ energyUsedMonth = 0
    /\ todayCost = 0
    /\ monthCost = 0
    /\ hourly_usage = <<>>
    /\ hourly_costs = <<>>
    /\ ret = [op |-> "none", raised |-> FALSE]
    /\ lastCall = [schedule |-> EmptySchedule, hvac_setpoints |-> <<>>]
    /\ calls = 0
    /\ plans = 0

\* write a household state back to the variables
SetState(st) ==
    /\ appliances' = st.appliances
    /\ hvac' = st.hvac
    /\ energyUsedToday' = st.energyUsedToday
    /\ energyUsedMonth' = st.energyUsedMonth
    /\ todayCost' = st.todayCost
    /\ monthCost' = st.monthCost
    /\ hourly_usage' = st.hourly_usage
    /\ hourly_costs' = st.hourly_costs

\* make_default_env's loop: add_appliance for each entry of a list, from entry i
\* on; the name of an appliance is its position in the household's list
RECURSIVE AddAll(_, _, _)
AddAll(apps, list, i) ==
    IF i > Len(list) THEN apps
    ELSE AddAll(add_appliance(apps, Appliance(Len(apps) + 1, list[i][1], list[i][2],
                                              list[i][3])),
                list, i + 1)

\* utils.make_default_env, for the default list and the other lists of
\* ApplianceChoices: the appliances are added to the newly built household
MakeDefaultEnv ==
    /\ appliances = <<>>
    /\ calls = 0
    /\ plans = 0
    /\ \E list \in ApplianceChoices : appliances' = AddAll(appliances, list, 1)
    /\ ret' = [op |-> "make_default_env", raised |-> FALSE]
    /\ UNCHANGED <<pricingType, prices, monthlyBudget, currentDay, monthDays, hvac,
                   energyUsedToday, energyUsedMonth, todayCost, monthCost,
                   hourly_usage, hourly_costs, lastCall, calls, plans>>

\* HouseholdEnvironment.simulate_day(schedule, hvac_setpoints)
SimulateDay ==
    /\ calls < MaxCalls
    /\ \E schedule \in ScheduleChoices(Len(appliances)), hvac_setpoints \in CurveChoices :
          \E r \in {simulate_day(HouseholdState, schedule, hvac_setpoints)} :
             /\ SetState(r.state)
             /\ ret' = [op |-> "simulate_day", raised |-> FALSE, metrics |-> r.metrics]
             /\ lastCall' = [schedule |-> schedule, hvac_setpoints |-> hvac_setpoints]
             /\ calls' = calls + 1
    /\ UNCHANGED <<pricingType, prices, monthlyBudget, currentDay, monthDays, plans>>

\* EnergyAdvisorAgent.plan_day()
PlanDay ==
    /\ plans < MaxPlans
    /\ \E r \in {plan_day(HouseholdState)} :
          IF r.raised
          THEN /\ ret' = [op |-> "plan_day", raised |-> TRUE]
               /\ UNCHANGED <<appliances, hvac, energyUsedToday, energyUsedMonth,
                              todayCost, monthCost, hourly_usage, hourly_costs,
                              lastCall, plans>>
          ELSE /\ SetState(r.state)
               /\ ret' = [op |-> "plan_day", raised |-> FALSE,
                          baseline_schedule |-> r.baseline_schedule,
                          baseline_hvac |-> r.baseline_hvac,
                          baseline_metrics |-> r.baseline_metrics,
                          greedy_schedule |-> r.greedy_schedule,
                          greedy_hvac |-> r.greedy_hvac,
                          greedy_metrics |-> r.greedy_metrics]
               /\ lastCall' = [schedule |-> r.greedy_schedule,
                               hvac_setpoints |-> r.greedy_hvac]
               /\ plans' = plans + 1
    /\ UNCHANGED <<pricingType, prices, monthlyBudget, currentDay, monthDays, calls>>

Next == MakeDefaultEnv \/ SimulateDay \/ PlanDay

Spec == Init /\ [][Next]_vars

\* ---------------------------------------------------------------- helpers of the claims
InSeq(x, s) == \E i \in 1..Len(s) : s[i] = x

\* the hours under which a schedule lists a name
HoursListing(schedule, name) == {h \in DOMAIN schedule : InSeq(name, schedule[h])}

RECURSIVE SumOver(_, _)
SumOver(f, S) ==
    IF S = {} THEN 0
    ELSE LET x == CHOOSE y \in S : TRUE IN f[x] + SumOver(f, S \ {x})

\* how often a schedule lists a name, over all hours
Occurrences(schedule, name) ==
    SumOver([h \in DOMAIN schedule |->
                Cardinality({i \in 1..Len(schedule[h]) : schedule[h][i] = name})],
            DOMAIN schedule)

\* plan_day has just returned its result
PlanReturned == ret.op = "plan_day" /\ ~ret.raised

\* the metrics records the most recent operation returned
ReturnedMetrics ==
    IF ret.op = "simulate_day" THEN {ret.metrics}
    ELSE IF PlanReturned THEN {ret.baseline_metrics, ret.greedy_metrics}
    ELSE {}

\* the quantities of the claims, in the claims' own words
\* d = max(1, int(duration_hours))
ClaimDuration(a) == IF a.durationHours \div 2 >= 1 THEN a.durationHours \div 2 ELSE 1

\* latest_start = max(0, deadline_hour - d + 1)
ClaimLatestStart(a) ==
    IF a.deadlineHour - ClaimDuration(a) + 1 >= 0
    THEN a.deadlineHour - ClaimDuration(a) + 1 ELSE 0

\* the starts s in [0, latest_start] with s + d <= 24
ClaimCandidates(a) == {s \in 0..ClaimLatestStart(a) : s + ClaimDuration(a) <= 24}

\* power_kw * (sum of price(h) for h in [s, s + d))
ClaimCost(a, s) ==
    a.powerkW * SumOver([h \in Hours |-> prices[h]], s..(s + ClaimDuration(a) - 1))

\* h lies in [start, start + duration_hours) for a start hour
InInterval(start, a, h) == start <= h /\ 2 * h < 2 * start + a.durationHours

\* ---------------------------------------------------------------- C1
\* C1: the hour under which _greedy_policy lists an appliance is the smallest
\* start among the candidates (0 <= s <= latest_start, s + d <= 24) of minimal
\* cost power_kw * sum of prices over [s, s + d); with no candidate it is hour 0.
C1_GreedyPicksEarliestCheapest ==
    PlanReturned =>
        \A i \in 1..Len(appliances) :
            LET a == appliances[i]
                cands == ClaimCandidates(a)
            IN /\ Occurrences(ret.greedy_schedule, a.name) = 1
               /\ \A s \in HoursListing(ret.greedy_schedule, a.name) :
                     IF cands = {} THEN s = 0
                     ELSE /\ s \in cands
                          /\ \A t \in cands :
                                \/ ClaimCost(a, s) < ClaimCost(a, t)
                                \/ ClaimCost(a, s) = ClaimCost(a, t) /\ s <= t

\* an appliance placed after hour 0, with a dearer candidate before it and an
\* equally cheap candidate after it; and one with no candidate at all
C1_Witness ==
    /\ PlanReturned
    /\ \E i \in 1..Len(appliances) :
          LET a == appliances[i]
          IN \E s \in HoursListing(ret.greedy_schedule, a.name) :
                /\ s > 0
                /\ \E t \in ClaimCandidates(a) : t < s /\ ClaimCost(a, t) > ClaimCost(a, s)
                /\ \E t \in ClaimCandidates(a) : t > s /\ ClaimCost(a, t) = ClaimCost(a, s)
    /\ \E i \in 1..Len(appliances) : ClaimCandidates(appliances[i]) = {}

\* ---------------------------------------------------------------- C2
\* the start the claim computes for appliance i: the sum of the earlier
\* durations, capped at 24
RECURSIVE BackToBackStart(_, _)
BackToBackStart(apps, i) ==
    IF i = 1 THEN 0
    ELSE LET e == BackToBackStart(apps, i - 1) + ClaimDuration(apps[i - 1])
         IN IF e <= 24 THEN e ELSE 24

\* C2: _baseline_policy never raises, lists every appliance exactly once at its
\* back-to-back start hour, and uses no hour >= 24 as a schedule key.
C2_BaselineNeverFails ==
    ret.op = "plan_day" =>
        /\ ~ret.raised
        /\ DOMAIN ret.baseline_schedule \subseteq Hours
        /\ \A i \in 1..Len(appliances) :
              /\ Occurrences(ret.baseline_schedule, appliances[i].name) = 1
              /\ HoursListing(ret.baseline_schedule, appliances[i].name)
                    = {BackToBackStart(appliances, i)}

\* ---------------------------------------------------------------- C3
\* equality of two fractions with positive denominators
RatEq(x, y) == x.num * y.den = y.num * x.den

\* max(0, (monthly_budget - used) / (month_days - current_day + 1)), and 0 when
\* current_day > month_days
ClaimDailyBudget(used) ==
    IF currentDay > monthDays THEN [num |-> 0, den |-> 1]
    ELSE [num |-> IF monthlyBudget - used >= 0 THEN monthlyBudget - used ELSE 0,
          den |-> monthDays - currentDay + 1]

\* C3: the daily budget of get_daily_budget and of simulate_day's metrics always
\* equals max(0, remaining budget / remaining days) and is never negative.
C3_DailyBudgetClamped ==
    /\ RatEq(get_daily_budget(monthlyBudget, energyUsedMonth, monthDays, currentDay),
             ClaimDailyBudget(energyUsedMonth))
    /\ ret.op = "simulate_day" =>
          /\ ret.metrics.daily_budget_kwh.num >= 0
          /\ RatEq(ret.metrics.daily_budget_kwh, ClaimDailyBudget(energyUsedMonth))
    /\ PlanReturned =>
          /\ ret.greedy_metrics.daily_budget_kwh.num >= 0
          /\ RatEq(ret.greedy_metrics.daily_budget_kwh, ClaimDailyBudget(energyUsedMonth))
          /\ RatEq(ret.baseline_metrics.daily_budget_kwh,
                   ClaimDailyBudget(energyUsedMonth - ret.greedy_metrics.total_kwh))

\* ---------------------------------------------------------------- C4
\* C4: every simulate_day call adds exactly its returned total_kwh and
\* total_cost to the monthly accumulators; a plan_day call adds the baseline
\* day and the greedy day; no other step changes the accumulators.
C4_MonthlyTotalsAccumulate ==
    [][ /\ calls' # calls =>
              /\ calls' = calls + 1 /\ plans' = plans
              /\ ret'.op = "simulate_day"
              /\ energyUsedMonth' = energyUsedMonth + ret'.metrics.total_kwh
              /\ monthCost' = monthCost + ret'.metrics.total_cost
        /\ plans' # plans =>
              /\ plans' = plans + 1 /\ calls' = calls
              /\ ret'.op = "plan_day" /\ ~ret'.raised
              /\ energyUsedMonth' = energyUsedMonth + ret'.baseline_metrics.total_kwh
                                                    + ret'.greedy_metrics.total_kwh
              /\ monthCost' = monthCost + ret'.baseline_metrics.total_cost
                                        + ret'.greedy_metrics.total_cost
        /\ (calls' = calls /\ plans' = plans) =>
              /\ energyUsedMonth' = energyUsedMonth
              /\ monthCost' = monthCost ]_vars

\* plan_day returned on a month that already held a simulated day, and added
\* its two (different) days to it
C4_Witness ==
    /\ calls = 1
    /\ PlanReturned
    /\ energyUsedMonth > ret.baseline_metrics.total_kwh + ret.greedy_metrics.total_kwh
    /\ ret.baseline_metrics.total_kwh > 0
    /\ ret.greedy_metrics.total_kwh > 0
    /\ ret.baseline_metrics.total_kwh # ret.greedy_metrics.total_kwh

\* ---------------------------------------------------------------- C5
\* C5: base_setpoint, min_temp and max_temp keep their configured values across
\* simulate_day and plan_day, so plan_day's baseline curve is always the same
\* constant.
C5_ThermostatConfigKept ==
    /\ base_setpoint(hvac) = base_setpoint(HVACSystem)
    /\ min_temp(hvac) = min_temp(HVACSystem)
    /\ max_temp(hvac) = max_temp(HVACSystem)
    /\ PlanReturned => ret.baseline_hvac = Repeat24(base_setpoint(HVACSystem))

\* ---------------------------------------------------------------- C6
\* C6: every start _greedy_policy accepts as a candidate satisfies
\* start + duration_hours <= deadline_hour, so an appliance placed at a
\* candidate is not counted in missed_deadlines.
C6_CandidatesMeetDeadline ==
    PlanReturned =>
        /\ \A i \in 1..Len(appliances) :
              LET a == appliances[i]
              IN /\ \A s \in ClaimCandidates(a) :
                        2 * s + a.durationHours <= 2 * a.deadlineHour
                 /\ a.scheduled_start \in ClaimCandidates(a) => ~Missed(a)
        /\ (\A i \in 1..Len(appliances) : ClaimCandidates(appliances[i]) # {})
              => ret.greedy_metrics.missed_deadlines = 0

\* ---------------------------------------------------------------- C7
\* the usage the claim gives hour h: thermostat power plus the power of every
\* appliance whose interval [scheduled_start, scheduled_start + duration) holds h
ClaimUsage(apps, h) ==
    hvac.powerkW
    + SumOver([i \in 1..Len(apps) |->
                  IF apps[i].scheduled_start # None
                     /\ InInterval(apps[i].scheduled_start, apps[i], h)
                  THEN apps[i].powerkW ELSE 0],
              1..Len(apps))

\* a whole number of hours, run entirely inside the day
FitsWhole(a) ==
    /\ a.scheduled_start # None
    /\ a.durationHours % 2 = 0
    /\ 2 * a.scheduled_start + a.durationHours <= 48

\* C7: after simulate_day, hourly_usage[h] is the thermostat power plus the
\* power of the appliances whose interval contains h; an appliance scheduled at
\* s with s + duration <= 24 draws in exactly the duration consecutive hours
\* s .. s + duration - 1, an unscheduled one in none.
C7_HourlyUsage ==
    calls + plans > 0 =>
        /\ \A h \in Hours : hourly_usage[h] = ClaimUsage(appliances, h)
        /\ \A i \in 1..Len(appliances) :
              LET a == appliances[i]
                  drawing == {h \in Hours : a.scheduled_start # None
                                            /\ InInterval(a.scheduled_start, a, h)}
              IN /\ FitsWhole(a) =>
                       drawing = a.scheduled_start
                                 ..(a.scheduled_start + a.durationHours \div 2 - 1)
                 /\ a.scheduled_start = None => drawing = {}
        /\ (\A i \in 1..Len(appliances) :
                appliances[i].scheduled_start = None \/ FitsWhole(appliances[i]))
              => SumOver(hourly_usage, Hours)
                   = 24 * hvac.powerkW
                     + SumOver([i \in 1..Len(appliances) |->
                                   IF appliances[i].scheduled_start = None THEN 0
                                   ELSE appliances[i].powerkW
                                        * (appliances[i].durationHours \div 2)],
                               1..Len(appliances))

\* a two-hour appliance run inside the day next to an unscheduled one
C7_Witness ==
    /\ calls + plans > 0
    /\ \E i, j \in 1..Len(appliances) :
          /\ FitsWhole(appliances[i])
          /\ appliances[i].durationHours >= 4
          /\ appliances[i].powerkW > 0
          /\ hourly_usage[appliances[i].scheduled_start] > hvac.powerkW
          /\ appliances[j].scheduled_start = None
          /\ appliances[j].powerkW > 0
          /\ appliances[j].durationHours > 0

\* ---------------------------------------------------------------- C8
\* C8: every returned metrics record has total_kwh = sum of hourly_usage,
\* total_cost = sum of hourly_costs and hourly_costs[h] = hourly_usage[h] *
\* price_at(h).
C8_TotalsAreSums ==
    \A m \in ReturnedMetrics :
        /\ DOMAIN m.hourly_usage = Hours
        /\ DOMAIN m.hourly_costs = Hours
        /\ m.total_kwh = SumOver(m.hourly_usage, Hours)
        /\ m.total_cost = SumOver(m.hourly_costs, Hours)
        /\ \A h \in Hours : m.hourly_costs[h] = m.hourly_usage[h] * prices[h]

\* a simulated day whose hours differ in usage and in price
C8_Witness ==
    /\ ret.op = "simulate_day"
    /\ ret.metrics.total_cost > 0
    /\ \E h, k \in Hours :
          /\ ret.metrics.hourly_usage[h] # ret.metrics.hourly_usage[k]
          /\ prices[h] # prices[k]

\* ---------------------------------------------------------------- C9
\* v is the element at index k (0-based) of the ascending-sorted prices: at
\* most k prices are below v and more than k are not above it
IsSortedElement(v, k) ==
    /\ \E h \in Hours : prices[h] = v
    /\ Cardinality({h \in Hours : prices[h] < v}) <= k
    /\ Cardinality({h \in Hours : prices[h] <= v}) > k

\* base_setpoint when plan_day ran _greedy_policy: the baseline simulation has
\* just set the setpoint to the baseline curve's value
BaseAtGreedy == ret.baseline_hvac[24]

\* C9: the greedy setpoint curve has 24 entries; with peak_threshold the
\* element at index 18 of the sorted prices, entry h is
\* min(max_temp, base_setpoint + 2) when price_at(h) >= peak_threshold and
\* base_setpoint otherwise; with 6 equal low and 18 equal high prices the
\* threshold is the high price and exactly the 18 high-price hours are raised.
C9_GreedySetpoints ==
    PlanReturned =>
        LET relaxed == IF max_temp(hvac) <= BaseAtGreedy + 2
                       THEN max_temp(hvac) ELSE BaseAtGreedy + 2
            lows == {h \in Hours : \A k \in Hours : prices[h] <= prices[k]}
            highs == Hours \ lows
        IN /\ Len(ret.greedy_hvac) = 24
           /\ \A thr \in {prices[h] : h \in Hours} :
                 IsSortedElement(thr, 18) =>
                    \A h \in Hours :
                       ret.greedy_hvac[h + 1]
                          = IF prices[h] >= thr THEN relaxed ELSE BaseAtGreedy
           /\ \E thr \in {prices[h] : h \in Hours} : IsSortedElement(thr, 18)
           /\ ( /\ Cardinality(lows) = 6
                /\ \A h, k \in highs : prices[h] = prices[k] )
              => /\ \A h \in highs : IsSortedElement(prices[h], 18)
                 /\ \A h \in highs : ret.greedy_hvac[h + 1] = relaxed
                 /\ Cardinality(highs) = 18
                 /\ \A h \in lows : ret.greedy_hvac[h + 1] = BaseAtGreedy

\* the table of 6 low and 18 high prices, 18 hours raised; and (another
\* household) a table in which some hours at or above the threshold are
\* cheaper than the dearest
C9_Witness ==
    /\ PlanReturned
    /\ Cardinality({h \in Hours : \A k \in Hours : prices[h] <= prices[k]}) = 6
    /\ Cardinality({prices[h] : h \in Hours}) = 2
    /\ Cardinality({h \in Hours : ret.greedy_hvac[h + 1] = BaseAtGreedy + 2}) = 18
    /\ Cardinality({h \in Hours : ret.greedy_hvac[h + 1] = BaseAtGreedy}) = 6

\* ---------------------------------------------------------------- C10
\* the start hour a schedule gives a name: the hour listing it, else None
ListedStart(schedule, name) ==
    IF HoursListing(schedule, name) = {} THEN None
    ELSE CHOOSE h \in HoursListing(schedule, name) : TRUE

\* the metrics of the most recent simulate_day call
LastMetrics ==
    IF ret.op = "simulate_day" THEN {ret.metrics}
    ELSE IF PlanReturned THEN {ret.greedy_metrics}
    ELSE {}

\* C10: after any simulate_day calls every appliance's scheduled_start is the
\* hour under which the most recent schedule lists its name, None when it does
\* not list it; the returned hourly_usage and missed_deadlines are those of
\* that schedule alone.
C10_StartsFollowLastSchedule ==
    LET sched == lastCall.schedule
        start(i) == ListedStart(sched, appliances[i].name)
    IN (\A i \in 1..Len(appliances) : Occurrences(sched, appliances[i].name) <= 1) =>
        /\ \A i \in 1..Len(appliances) : appliances[i].scheduled_start = start(i)
        /\ \A m \in LastMetrics :
              /\ \A h \in Hours :
                    m.hourly_usage[h]
                       = hvac.powerkW
                         + SumOver([i \in 1..Len(appliances) |->
                                       IF start(i) # None
                                          /\ InInterval(start(i), appliances[i], h)
                                       THEN appliances[i].powerkW ELSE 0],
                                   1..Len(appliances))
              /\ m.missed_deadlines
                    = Cardinality({i \in 1..Len(appliances) :
                          /\ start(i) # None
                          /\ appliances[i].durationHours > 0
                          /\ 2 * start(i) + appliances[i].durationHours
                                > 2 * appliances[i].deadlineHour})

\* the only appliance ran on the two days plan_day simulated (they used more
\* than the thermostat alone) and the schedule of the simulate_day call after
\* it does not list the appliance
C10_Witness ==
    /\ plans = 1
    /\ calls = 1
    /\ ret.op = "simulate_day"
    /\ Len(appliances) = 1
    /\ HoursListing(lastCall.schedule, appliances[1].name) = {}
    /\ appliances[1].scheduled_start = None
    /\ energyUsedMonth - ret.metrics.total_kwh > 2 * 24 * hvac.powerkW
    /\ ret.metrics.total_kwh = 24 * hvac.powerkW


\* ---------------------------------------------------------------- C11
\* the peak band the claim names for a profile
ClaimPeakBand(t) ==
    IF t = "standard" THEN 16..20
    ELSE IF t = "summer" THEN 14..21
    ELSE 17..19

\* the hours whose returned greedy setpoint is above base_setpoint
RaisedHours == {h \in Hours : ret.greedy_hvac[h + 1] > BaseAtGreedy}

\* C11: under each of the three named profiles the hours whose greedy setpoint
\* is raised above base_setpoint are exactly the hours of the profile's peak
\* band (standard [16,21), summer [14,22), winter [17,20)); no mid-peak or
\* off-peak hour is raised.
C11_RelaxedOnlyAtPeak ==
    (PlanReturned /\ pricingType \in {"standard", "summer", "winter"})
        => RaisedHours = ClaimPeakBand(pricingType)

\* ---------------------------------------------------------------- C12
\* the profiles built by name
NamedProfiles == {"standard", "summer", "winter"}

\* the appliances the claim speaks of: power_kw >= 0, duration_hours >= 1,
\* deadline_hour in [0, 23]
ClaimAppliance(a) ==
    /\ a.powerkW >= 0
    /\ a.durationHours >= 2
    /\ a.deadlineHour \in 0..23

\* the household holds exactly the appliances of default_appliances
IsDefaultHousehold ==
    /\ Len(appliances) = Len(default_appliances)
    /\ \A i \in 1..Len(appliances) :
          /\ appliances[i].name = default_appliances[i].name
          /\ appliances[i].powerkW = default_appliances[i].powerkW
          /\ appliances[i].durationHours = default_appliances[i].durationHours
          /\ appliances[i].deadlineHour = default_appliances[i].deadlineHour

\* C12: under each of the three named profiles _greedy_policy lists every
\* appliance with power_kw >= 0, duration_hours >= 1 and deadline_hour in
\* [0, 23] at start hour 0 (for the household as it is in any state, and in
\* the schedule plan_day returned); in Scenario A (standard, the default
\* appliances) all three start at hour 0, run inside the off-peak hours 0..5,
\* and the greedy simulation reports zero missed deadlines.
C12_NamedProfilesStartAtZero ==
    pricingType \in NamedProfiles =>
        /\ \A i \in 1..Len(appliances) :
              ClaimAppliance(appliances[i]) =>
                 /\ HoursListing(_greedy_policy(appliances, hvac, prices).schedule,
                                 appliances[i].name) = {0}
                 /\ PlanReturned =>
                       /\ HoursListing(ret.greedy_schedule, appliances[i].name) = {0}
                       /\ Occurrences(ret.greedy_schedule, appliances[i].name) = 1
        /\ (PlanReturned /\ pricingType = "standard" /\ IsDefaultHousehold) =>
              /\ Len(ret.greedy_schedule[0]) = 3
              /\ \A i \in 1..3 : \A h \in Hours :
                    InInterval(0, appliances[i], h) => (h < 6 /\ prices[h] = 8)
              /\ ret.greedy_metrics.missed_deadlines = 0

\* Scenario A was planned: every default appliance had later candidates to
\* choose from and all three are listed at hour 0
C12_Witness ==
    /\ PlanReturned
    /\ pricingType = "standard"
    /\ IsDefaultHousehold
    /\ \A i \in 1..3 :
          /\ Cardinality(ClaimCandidates(appliances[i])) > 1
          /\ InSeq(appliances[i].name, ret.greedy_schedule[0])
    /\ ret.greedy_metrics.missed_deadlines = 0

\* ---------------------------------------------------------------- C13
\* C13: whenever plan_day completes on a household of a named profile whose
\* appliances all have power_kw >= 0, duration_hours >= 1 and deadline_hour in
\* [0, 23], greedy_metrics.total_cost <= baseline_metrics.total_cost, and the
\* absolute saving compute_savings reports is not negative.
C13_GreedyNeverCostsMore ==
    ( /\ PlanReturned
      /\ pricingType \in NamedProfiles
      /\ \A i \in 1..Len(appliances) : ClaimAppliance(appliances[i]) )
    => /\ ret.greedy_metrics.total_cost <= ret.baseline_metrics.total_cost
       /\ compute_savings(ret.baseline_metrics, ret.greedy_metrics).absolute >= 0
====
